---- MODULE Spec2Model ----
(***************************************************************************)
(* ExamExtract-AI: the batch orchestrator of App.tsx (the cancellable,     *)
(* batched variant, lines 238-514), the extraction client of               *)
(* src/unnamed/part_000 (generateWithRetry / analyzeDocumentContent), the  *)
(* HTML chunker, the PDF rasterizer and the file type detection of         *)
(* services/documentProcessor.ts, and the result store with its edit,      *)
(* delete and export handlers (App.tsx, components/ResultsTable.tsx).      *)
(*                                                                         *)
(* One JavaScript event-loop turn is one action: a user event handler, or  *)
(* the settlement of an awaited promise together with every synchronous    *)
(* continuation (microtask) that runs before the next macrotask.           *)
(***************************************************************************)
EXTENDS Integers, Sequences, FiniteSets, TLC

\* ------------------------------------------------------------------ bounds
MaxRuns == 2
MaxUnits == 13
MaxRecs == 1
MaxAnswerLen == 3
MaxHtmlLen == 5
MaxChunkSize == 10
MaxIds == 3
MaxEdits == 2
MaxDetects == 2
MaxPages == 5
MaxItems == 2

\* ------------------------------------------------------- program constants
PAGES_PER_CONTEXT == 4
CONCURRENT_REQUESTS == 3
retries == 3
PAGE_BATCH == 4

VARIABLES
  \* App.tsx: React state, the ref, and the in-flight handleProcess calls
  file, results, status, abortRef, apiKey, runs, nextRun,
  \* FileUpload: whether the last file offered was refused with the alert
  alerted,
  \* generateWithRetry: one call of it, step by step
  rtOuts, rtI, rtPc, rtCalls, rtWaits, rtErr,
  \* the post-processing of one response element's correctAnswer
  rawAnswer, correctAnswer, nmPc,
  \* chunkHtmlContent: one call of it
  html, maxChunkSize, chunks, ckPc,
  \* the result store on its own: the id generator, the last operation on the
  \* store, the rows it handed to the spreadsheet writer (a local of
  \* handleDownload, gone with the next operation), the edits made so far
  nextId, stOp, sheet, edits,
  \* detectFileType: the file of the last call, its result, and the call before
  dtFile, dtKind, dtPrev, dtCalls,
  \* processPdfToImages: one call of it, page render by page render
  rsN, rsAcquired, rsBlank, rsBatch, rsPending, rsFinished, rsResults, rsImages, rsPc,
  \* analyzeDocumentContent: one call of it, with what the retries and the
  \* response body hold, and what it returned
  anOuts, anResp, anOut, anPc

appVars == <<file, results, status, abortRef, apiKey, runs, nextRun, alerted>>
rtVars == <<rtOuts, rtI, rtPc, rtCalls, rtWaits, rtErr>>
nmVars == <<rawAnswer, correctAnswer, nmPc>>
ckVars == <<html, maxChunkSize, chunks, ckPc>>
stVars == <<nextId, stOp, sheet, edits>>
dtVars == <<dtFile, dtKind, dtPrev, dtCalls>>
rsVars == <<rsN, rsAcquired, rsBlank, rsBatch, rsPending, rsFinished, rsResults, rsImages, rsPc>>
anVars == <<anOuts, anResp, anOut, anPc>>
auxVars == <<stVars, dtVars, rsVars, anVars>>
pureVars == <<rtVars, nmVars, ckVars, auxVars>>
vars == <<appVars, pureVars>>

\* ------------------------------------------------------------ small helpers
Min(a, b) == IF a < b THEN a ELSE b

RECURSIVE Pow2(_)
Pow2(n) == IF n = 0 THEN 1 ELSE 2 * Pow2(n - 1)

RECURSIVE Flat(_)
Flat(ss) == IF ss = <<>> THEN <<>> ELSE Head(ss) \o Flat(Tail(ss))

IsPrefix(s, t) == Len(s) <= Len(t) /\ SubSeq(t, 1, Len(s)) = s

\* ------------------------------------------------- services/documentProcessor
PdfType == "application/pdf"
DocxType == "application/vnd.openxmlformats-officedocument.wordprocessingml.document"
MediaTypes == {PdfType, DocxType, "image/png"}

detectFileType(mediaType) ==
  IF mediaType = PdfType THEN "pdf"
  ELSE IF mediaType = DocxType THEN "docx"
  ELSE "unknown"

\* --------------------------------------------------------- generateWithRetry
\* What one ai.models.generateContent call can do: resolve with a response, or
\* reject with an error of one of these classes (by what error.message holds).
ErrorClasses == {"e503", "e429", "eAuth", "e404", "eOther", "eNoMessage"}
AttemptOutcomes == {"ok"} \cup ErrorClasses
FatalClasses == {"eAuth", "e404"}

\* error.message?.includes('503') || error.message?.includes('429')
isRetryable(err) == err \in {"e503", "e429"}

\* Off by one: the last attempt is not recognised as the last.
Rethrows_offByOne(i, err) == i = retries \/ ~isRetryable(err)

\* if (i === retries - 1 || !isRetryable) throw error
Rethrows(i, err) == i = retries - 1 \/ ~isRetryable(err)

\* wait(1000 * Math.pow(2, i))
BackoffMs(i) == 1000 * Pow2(i)

\* The whole loop as a function of the per-attempt outcomes: what it returns or
\* throws, how many model calls it made and the waits in between.
RECURSIVE RetryFrom(_, _, _)
RetryFrom(outs, i, waits) ==
  IF i >= retries THEN [kind |-> "undefined", err |-> "", calls |-> i, waits |-> waits]
  ELSE IF outs[i + 1] = "ok"
       THEN [kind |-> "response", err |-> "", calls |-> i + 1, waits |-> waits]
  ELSE IF Rethrows(i, outs[i + 1])
       THEN [kind |-> "thrown", err |-> outs[i + 1], calls |-> i + 1, waits |-> waits]
  ELSE RetryFrom(outs, i + 1, Append(waits, BackoffMs(i)))

generateWithRetry(outs) == RetryFrom(outs, 0, <<>>)

\* ------------------------------------------------------ analyzeDocumentContent
\* What the model's response body holds once a call went through: no text, text
\* that JSON.parse rejects, or an array of k elements.
Responses ==
  {[text |-> "noText", n |-> 0], [text |-> "badJson", n |-> 0]}
  \cup {[text |-> "array", n |-> k] : k \in 0..MaxRecs}

ApiKeyMissing == "API Key is missing. Please ensure process.env.API_KEY is configured in your environment."

\* One call of analyzeDocumentContent: the promise it returns is rejected when
\* the API key is missing (no request is made), and otherwise resolved, with []
\* whenever anything inside the try block threw. n is the number of records,
\* swallowed the error the catch block logged and dropped ("" when none).
analyzeDocumentContent(hasKey, outs, resp) ==
  IF ~hasKey
  THEN [kind |-> "rejected", message |-> ApiKeyMissing, n |-> 0, swallowed |-> "", requests |-> 0]
  ELSE LET g == generateWithRetry(outs) IN
       IF g.kind = "thrown"
       THEN [kind |-> "resolved", message |-> "", n |-> 0, swallowed |-> g.err, requests |-> g.calls]
       ELSE IF g.kind = "undefined"
       THEN [kind |-> "resolved", message |-> "", n |-> 0, swallowed |-> "eType", requests |-> g.calls]
       ELSE IF resp.text = "noText"
       THEN [kind |-> "resolved", message |-> "", n |-> 0, swallowed |-> "", requests |-> g.calls]
       ELSE IF resp.text = "badJson"
       THEN [kind |-> "resolved", message |-> "", n |-> 0, swallowed |-> "eParse", requests |-> g.calls]
       ELSE [kind |-> "resolved", message |-> "", n |-> resp.n, swallowed |-> "", requests |-> g.calls]

\* What the orchestrator can tell of a settled call, and whether an error was
\* swallowed on the way and of which kind.
CallEffect(a) ==
  [kind |-> a.kind, message |-> a.message, n |-> a.n,
   failed |-> a.swallowed # "", fatal |-> a.swallowed \in FatalClasses]

\* Every way one call with the API key present can settle, over all per-attempt
\* outcomes and response bodies.
CallResults ==
  {CallEffect(analyzeDocumentContent(TRUE, outs, resp)) :
     outs \in [1..retries -> AttemptOutcomes], resp \in Responses}

\* The records one call returns for group grp of run r (one per array element).
MakeRecords(r, grp, k) == [j \in 1..k |-> [run |-> r, grp |-> grp, idx |-> j]]

\* ------------------------------------------------------------------- App.tsx
RunIds == 1..MaxRuns

\* The page or chunk counts a preparation step can produce: none, and enough
\* for a full wave followed by a second one.
UnitCounts == {0, MaxUnits}

RECURSIVE chunkArray(_, _)
chunkArray(array, size) ==
  IF array = <<>> THEN <<>>
  ELSE <<SubSeq(array, 1, Min(size, Len(array)))>>
       \o chunkArray(SubSeq(array, size + 1, Len(array)), size)

Units(n) == [u \in 1..n |-> u]

PendingCall == [st |-> "pending", recs |-> <<>>]

\* A handleProcess invocation that has not been made yet.
NewRun ==
  [pc |-> "new", mimeType |-> "", groups |-> <<>>, i |-> 0, completedGroups |-> 0,
   calls |-> <<>>, end |-> "",
   \* the groups handed to analyzeDocumentContent so far, in dispatch order
   \* (kept while the invocation is in flight)
   sent |-> <<>>,
   \* history: cancel was requested while it was in flight; and, for an
   \* invocation that was never cancelled, until the next one starts: a call of
   \* it failed, a call of it failed on a rejected credential or a missing
   \* model, the number of records its calls returned, the groups it never
   \* dispatched
   cancelled |-> FALSE, failed |-> FALSE, fatal |-> FALSE, okSum |-> 0, missed |-> 0]

\* The history of calls is kept for an invocation never cancelled.
Hist(run) ==
  IF ~run.cancelled THEN run
  ELSE [run EXCEPT !.failed = FALSE, !.fatal = FALSE, !.okSum = 0, !.missed = 0,
                   !.sent = <<>>]

\* The history of the calls of an invocation that has returned is dropped.
Forget(run) ==
  IF run.pc = "done"
  THEN [run EXCEPT !.failed = FALSE, !.fatal = FALSE, !.okSum = 0, !.missed = 0]
  ELSE Hist(run)

Live(r) == runs[r].pc \notin {"new", "done"}

Outstanding(r) ==
  Cardinality({j \in DOMAIN runs[r].calls : runs[r].calls[j].st = "pending"})

\* Groups for which the run has issued an analyzeDocumentContent call.
Dispatched(r) ==
  IF runs[r].pc = "wave"
  THEN Min(runs[r].i + CONCURRENT_REQUESTS, Len(runs[r].groups))
  ELSE Min(runs[r].i, Len(runs[r].groups))

\* const isProcessing = status.status === 'analyzing' || status.status === 'extracting'
isProcessing == status.status \in {"analyzing", "extracting"}

Status(total, current, st, message) ==
  [total |-> total, current |-> current, status |-> st, message |-> message]

\* The invocation returns: only its history is kept.
EndRun(run, end) ==
  Hist([NewRun EXCEPT !.pc = "done", !.end = end,
                      !.cancelled = run.cancelled, !.failed = run.failed,
                      !.fatal = run.fatal, !.okSum = run.okSum,
                      !.missed = Len(run.groups) - Min(run.i, Len(run.groups))])

BatchMessage(completedGroups) ==
  "Analyzing batch "
  \o ToString(((completedGroups + 1) + CONCURRENT_REQUESTS - 1) \div CONCURRENT_REQUESTS + 1)
  \o "..."

\* handleProcess, lines 338-342: after processGroups returned.
AfterGroups(run, st, abort) ==
  IF abort
  THEN [run |-> EndRun(run, "cancelled"), st |-> Status(0, 0, "idle", "Cancelled")]
  ELSE [run |-> EndRun(run, "complete"), st |-> Status(0, 0, "complete", "Extraction Complete!")]

\* The error is dropped and the invocation ends as if the loop had finished.
Caught_asComplete(run, message) ==
  [run |-> EndRun(run, "complete"), st |-> Status(0, 0, "complete", "Extraction Complete!")]

\* handleProcess, lines 344-348: the catch block.
Caught(run, message) ==
  [run |-> EndRun(run, "error"), st |-> Status(0, 0, "error", message)]

\* The calls of a wave are issued whether or not the API key is there.
LoopHead_noKeyCheck(run, st, hasKey, abort) ==
  IF run.i < Len(run.groups) /\ ~abort
  THEN LET batchLen == Min(CONCURRENT_REQUESTS, Len(run.groups) - run.i)
       IN [run |-> [run EXCEPT !.pc = "wave",
                               !.calls = [j \in 1..batchLen |-> PendingCall],
                               !.sent = @ \o SubSeq(run.groups, run.i + 1,
                                                    run.i + batchLen)],
           st |-> [st EXCEPT !.message = BatchMessage(run.completedGroups)]]
  ELSE AfterGroups(run, st, abort)

\* processGroups from the head of its loop (line 269) to its next await or to
\* the end of handleProcess. st is the status after the setStatus calls made so
\* far in this turn (React applies the queued updates in order).
LoopHead(run, st, hasKey, abort) ==
  IF run.i < Len(run.groups) /\ ~abort
  THEN LET batchLen == Min(CONCURRENT_REQUESTS, Len(run.groups) - run.i)
       IN IF hasKey
          THEN [run |-> [run EXCEPT !.pc = "wave",
                                    !.calls = [j \in 1..batchLen |-> PendingCall],
                                    !.sent = @ \o SubSeq(run.groups, run.i + 1,
                                                         run.i + batchLen)],
                st |-> [st EXCEPT !.message = BatchMessage(run.completedGroups)]]
          ELSE \* every call of the wave rejects before any request is made
               Caught(run, ApiKeyMissing)
  ELSE AfterGroups(run, st, abort)

\* handleProcess, lines 324-336: from the second abort check into processGroups.
EnterExtracting(run, groups, mimeType, hasKey, abort) ==
  IF abort
  THEN [run |-> EndRun(run, "idle"), st |-> Status(0, 0, "idle", "")]
  ELSE LoopHead([run EXCEPT !.groups = groups, !.mimeType = mimeType,
                            !.i = 0, !.completedGroups = 0],
                Status(Len(groups), 0, "extracting", "AI Extraction in Progress..."),
                hasKey, abort)

\* The results of the wave are flattened from the last call to the first.
WaveSettled_reversed(run, st, res, hasKey, abort) ==
  IF abort
  THEN AfterGroups(run, st, abort) @@ [res |-> res]
  ELSE LET flatResults == Flat([j \in DOMAIN run.calls |->
                                  run.calls[Len(run.calls) + 1 - j].recs])
           completed == run.completedGroups + Len(run.calls)
           run1 == [run EXCEPT !.completedGroups = completed,
                               !.i = run.i + CONCURRENT_REQUESTS, !.calls = <<>>]
       IN LoopHead(run1, [st EXCEPT !.current = completed], hasKey, abort)
          @@ [res |-> IF Len(flatResults) > 0 THEN res \o flatResults ELSE res]

\* The flag is not looked at after Promise.all.
WaveSettled_noAbortCheck(run, st, res, hasKey, abort) ==
  LET flatResults == Flat([j \in DOMAIN run.calls |-> run.calls[j].recs])
      completed == run.completedGroups + Len(run.calls)
      run1 == [run EXCEPT !.completedGroups = completed,
                          !.i = run.i + CONCURRENT_REQUESTS, !.calls = <<>>]
  IN LoopHead(run1, [st EXCEPT !.current = completed], hasKey, abort)
     @@ [res |-> IF Len(flatResults) > 0 THEN res \o flatResults ELSE res]

\* The loop index advances by one less than the wave size.
WaveSettled_resend(run, st, res, hasKey, abort) ==
  IF abort
  THEN AfterGroups(run, st, abort) @@ [res |-> res]
  ELSE LET flatResults == Flat([j \in DOMAIN run.calls |-> run.calls[j].recs])
           completed == run.completedGroups + Len(run.calls)
           run1 == [run EXCEPT !.completedGroups = completed,
                               !.i = run.i + CONCURRENT_REQUESTS - 1, !.calls = <<>>]
       IN LoopHead(run1, [st EXCEPT !.current = completed], hasKey, abort)
          @@ [res |-> IF Len(flatResults) > 0 THEN res \o flatResults ELSE res]

\* processGroups, lines 282-290, once Promise.all of the wave resolved, and on
\* into the next iteration.
WaveSettled(run, st, res, hasKey, abort) ==
  IF abort
  THEN AfterGroups(run, st, abort) @@ [res |-> res]
  ELSE LET flatResults == Flat([j \in DOMAIN run.calls |-> run.calls[j].recs])
           completed == run.completedGroups + Len(run.calls)
           run1 == [run EXCEPT !.completedGroups = completed,
                               !.i = run.i + CONCURRENT_REQUESTS, !.calls = <<>>]
       IN LoopHead(run1, [st EXCEPT !.current = completed], hasKey, abort)
          @@ [res |-> IF Len(flatResults) > 0 THEN res \o flatResults ELSE res]

AppInit ==
  /\ file = "none"
  /\ results = <<>>
  /\ status = Status(0, 0, "idle", "")
  /\ abortRef = FALSE
  /\ apiKey \in BOOLEAN
  /\ runs = [r \in RunIds |-> NewRun]
  /\ nextRun = 1
  /\ alerted = FALSE

\* Every file offered is handed to onFileSelect.
SelectFile_noValidation(mediaType) ==
  /\ file = "none"
  /\ ~isProcessing
  /\ file' = mediaType
  /\ alerted' = FALSE
  /\ UNCHANGED <<results, status, abortRef, apiKey, runs, nextRun, pureVars>>

\* FileUpload: handleChange / handleDrop -> validateAndSet. The input is only
\* rendered while no file is selected and the upload is not disabled.
\* A refused file ends in alert("Please upload a PDF or DOCX file.").
SelectFile(mediaType) ==
  /\ file = "none"
  /\ ~isProcessing
  /\ file' = IF detectFileType(mediaType) # "unknown" THEN mediaType ELSE file
  /\ alerted' = (detectFileType(mediaType) = "unknown")
  /\ UNCHANGED <<results, status, abortRef, apiKey, runs, nextRun, pureVars>>

\* The "Extract to Excel" button, rendered while !isProcessing, disabled while
\* no file is selected: handleProcess up to its first await.
handleProcess ==
  /\ file # "none"
  /\ ~isProcessing
  /\ nextRun <= MaxRuns
  /\ LET r == nextRun
         type == detectFileType(file)
         run0 == NewRun
         next ==
           IF type = "pdf"
           THEN [run |-> [run0 EXCEPT !.pc = "delay"],
                 st |-> Status(100, 0, "analyzing", "Optimizing PDF (Parallel Processing)...")]
           ELSE IF type = "docx"
           THEN [run |-> [run0 EXCEPT !.pc = "docx"],
                 st |-> Status(100, 10, "analyzing", "Reading Word Document...")]
           ELSE EnterExtracting(run0, <<>>, "", apiKey, FALSE)
     IN /\ runs' = [q \in RunIds |-> IF q = r THEN next.run ELSE Forget(runs[q])]
        /\ status' = next.st
  /\ abortRef' = FALSE
  /\ results' = <<>>
  /\ nextRun' = nextRun + 1
  /\ UNCHANGED <<file, apiKey, alerted, pureVars>>

\* line 309: the 100 ms timer fires and processPdfToImages is called.
DelayElapsed(r) ==
  /\ runs[r].pc = "delay"
  /\ runs' = [runs EXCEPT ![r].pc = "raster"]
  /\ UNCHANGED <<file, results, status, abortRef, apiKey, nextRun, alerted, pureVars>>

\* processPdfToImages resolves with n page images: lines 311-342.
RasterSettle(r, n) ==
  /\ runs[r].pc = "raster"
  /\ LET next == IF abortRef
                 THEN [run |-> EndRun(runs[r], "silent"), st |-> status]
                 ELSE EnterExtracting(runs[r], chunkArray(Units(n), PAGES_PER_CONTEXT),
                                      "image/jpeg", apiKey, abortRef)
     IN /\ runs' = [runs EXCEPT ![r] = next.run]
        /\ status' = next.st
  /\ UNCHANGED <<file, results, abortRef, apiKey, nextRun, alerted, pureVars>>

\* processDocxToHtml resolves with n chunks (chunkHtmlContent returns at least
\* one): lines 319-342.
DocxSettle(r, n) ==
  /\ runs[r].pc = "docx"
  /\ n >= 1
  /\ LET next == EnterExtracting(runs[r], chunkArray(Units(n), PAGES_PER_CONTEXT),
                                 "text/html", apiKey, abortRef)
     IN /\ runs' = [runs EXCEPT ![r] = next.run]
        /\ status' = next.st
  /\ UNCHANGED <<file, results, abortRef, apiKey, nextRun, alerted, pureVars>>

PrepareFailed == "Failed to process PDF"

\* processPdfToImages or processDocxToHtml rejects: the catch block.
PrepareFails(r) ==
  /\ runs[r].pc \in {"raster", "docx"}
  /\ LET next == Caught(runs[r], PrepareFailed)
     IN /\ runs' = [runs EXCEPT ![r] = next.run]
        /\ status' = next.st
  /\ UNCHANGED <<file, results, abortRef, apiKey, nextRun, alerted, pureVars>>

\* Call j of the wave in flight settles; when it is the last of its wave,
\* Promise.all resolves and processGroups runs on.
CallSettle(r, j) ==
  /\ runs[r].pc = "wave"
  /\ j \in DOMAIN runs[r].calls
  /\ runs[r].calls[j].st = "pending"
  /\ \E a \in CallResults :
     \E run1 \in {Hist([runs[r] EXCEPT
                    !.calls[j] = [st |-> "resolved",
                                  recs |-> MakeRecords(r, runs[r].i + j, a.n)],
                    !.fatal = @ \/ a.fatal,
                    !.failed = @ \/ a.failed,
                    !.okSum = @ + a.n])} :
     \E next \in {IF a.kind = "rejected"
                  THEN \* Promise.all rejects with the first rejection
                       Caught(run1, a.message) @@ [res |-> results]
                  ELSE IF \A q \in DOMAIN run1.calls : run1.calls[q].st = "resolved"
                  THEN WaveSettled(run1, status, results, apiKey, abortRef)
                  ELSE [run |-> run1, st |-> status, res |-> results]} :
        /\ runs' = [runs EXCEPT ![r] = next.run]
        /\ status' = next.st
        /\ results' = next.res
  /\ UNCHANGED <<file, abortRef, apiKey, nextRun, alerted, pureVars>>

\* The flag is set but the status is left as it is.
handleCancel_keepsStatus ==
  /\ isProcessing
  /\ abortRef' = TRUE
  /\ runs' = [r \in RunIds |->
                IF Live(r) THEN Hist([runs[r] EXCEPT !.cancelled = TRUE]) ELSE runs[r]]
  /\ UNCHANGED <<file, results, status, apiKey, nextRun, alerted, pureVars>>

\* The "Cancel Processing" button, rendered while isProcessing.
handleCancel ==
  /\ isProcessing
  /\ abortRef' = TRUE
  /\ status' = Status(0, 0, "idle", "Stopping...")
  /\ runs' = [r \in RunIds |->
                IF Live(r) THEN Hist([runs[r] EXCEPT !.cancelled = TRUE]) ELSE runs[r]]
  /\ UNCHANGED <<file, results, apiKey, nextRun, alerted, pureVars>>

\* The clear button of FileUpload, rendered while a file is selected and the
\* upload is not disabled.
handleClear ==
  /\ file # "none"
  /\ ~isProcessing
  /\ file' = "none"
  /\ results' = <<>>
  /\ status' = Status(0, 0, "idle", "")
  /\ UNCHANGED <<abortRef, apiKey, runs, nextRun, alerted, pureVars>>

RtIdle ==
  /\ rtOuts = <<>>
  /\ rtI = 0
  /\ rtPc = "off"
  /\ rtCalls = 0
  /\ rtWaits = <<>>
  /\ rtErr = ""

NmIdle ==
  /\ rawAnswer = [kind |-> "absent", s |-> <<>>]
  /\ correctAnswer = [threw |-> FALSE, value |-> <<>>]
  /\ nmPc = "off"

CkIdle ==
  /\ html = <<>>
  /\ maxChunkSize = 1
  /\ chunks = <<>>
  /\ ckPc = "off"

NoOp == [op |-> "none", id |-> "", field |-> ""]

StIdle ==
  /\ nextId = 1
  /\ stOp = NoOp
  /\ sheet = <<>>
  /\ edits = 0

NoFile == [name |-> "", type |-> ""]

DtIdle ==
  /\ dtFile = NoFile
  /\ dtKind = "unknown"
  /\ dtPrev = [file |-> NoFile, kind |-> "unknown"]
  /\ dtCalls = 0

RsIdle ==
  /\ rsN = 0
  /\ rsAcquired = {}
  /\ rsBlank = {}
  /\ rsBatch = <<>>
  /\ rsPending = {}
  /\ rsFinished = <<>>
  /\ rsResults = <<>>
  /\ rsImages = <<>>
  /\ rsPc = "off"

NoReturn == [threw |-> FALSE, records |-> <<>>]

AnIdle ==
  /\ anOuts = <<>>
  /\ anResp = [text |-> "noText"]
  /\ anOut = NoReturn
  /\ anPc = "off"

AuxIdle == StIdle /\ DtIdle /\ RsIdle /\ AnIdle

Init == AppInit /\ RtIdle /\ NmIdle /\ CkIdle /\ AuxIdle

Next ==
  \/ \E mediaType \in MediaTypes : SelectFile(mediaType)
  \/ handleProcess
  \/ \E r \in RunIds : DelayElapsed(r)
  \/ \E r \in RunIds, n \in UnitCounts : RasterSettle(r, n)
  \/ \E r \in RunIds, n \in UnitCounts : DocxSettle(r, n)
  \/ \E r \in RunIds : PrepareFails(r)
  \/ \E r \in RunIds, j \in 1..CONCURRENT_REQUESTS : CallSettle(r, j)
  \/ handleCancel
  \/ handleClear

Spec == Init /\ [][Next]_vars

\* Every timer fires and every rasterization, conversion and model call of an
\* invocation in flight eventually settles; the user is under no obligation.
Settle(r) ==
  \/ DelayElapsed(r)
  \/ \E n \in UnitCounts : RasterSettle(r, n)
  \/ \E n \in UnitCounts : DocxSettle(r, n)
  \/ PrepareFails(r)
  \/ \E j \in 1..CONCURRENT_REQUESTS : CallSettle(r, j)

LiveSpec == Init /\ [][Next]_vars /\ \A r \in RunIds : WF_vars(Settle(r))

\* ------------------------------------------- generateWithRetry, step by step
\* rtOuts[k] is what the k-th model call does; rtWaits the delays waited so far.
RetryInit ==
  /\ rtOuts \in [1..retries -> AttemptOutcomes]
  /\ rtI = 0
  /\ rtPc = IF 0 < retries THEN "try" ELSE "undefined"
  /\ rtCalls = 0
  /\ rtWaits = <<>>
  /\ rtErr = ""
  /\ AppInit /\ apiKey /\ NmIdle /\ CkIdle /\ AuxIdle

\* lines 31-36: one pass through the loop body, up to the return, the throw or
\* the start of the wait.
RetryAttempt ==
  /\ rtPc = "try"
  /\ rtCalls' = rtCalls + 1
  /\ LET o == rtOuts[rtI + 1] IN
       IF o = "ok"
       THEN rtPc' = "returned" /\ UNCHANGED <<rtErr, rtWaits>>
       ELSE IF Rethrows(rtI, o)
       THEN rtPc' = "thrown" /\ rtErr' = o /\ UNCHANGED rtWaits
       ELSE rtPc' = "wait" /\ rtWaits' = Append(rtWaits, BackoffMs(rtI)) /\ UNCHANGED rtErr
  /\ UNCHANGED <<rtOuts, rtI, appVars, nmVars, ckVars, auxVars>>

\* line 36 resolves, line 30: i++ and the loop test.
RetryWaitElapsed ==
  /\ rtPc = "wait"
  /\ rtI' = rtI + 1
  /\ rtPc' = IF rtI + 1 < retries THEN "try" ELSE "undefined"
  /\ UNCHANGED <<rtOuts, rtCalls, rtWaits, rtErr, appVars, nmVars, ckVars, auxVars>>

RetryNext == RetryAttempt \/ RetryWaitElapsed

RetrySpec == RetryInit /\ [][RetryNext]_vars

\* --------------------------------- analyzeDocumentContent: the correctAnswer
\* Strings are sequences of characters. The characters a raw answer is drawn
\* from: a lower-case and two upper-case letters of A-E, a letter outside A-E,
\* white space and punctuation.
AnswerChars == {"b", "A", "E", "x", " ", ")"}

RECURSIVE StringsUpTo(_, _)
StringsUpTo(chars, n) ==
  IF n = 0 THEN {<<>>}
  ELSE LET shorter == StringsUpTo(chars, n - 1)
       IN shorter \cup {Append(t, c) : t \in shorter, c \in chars}

toUpperCase(c) ==
  IF c = "b" THEN "B" ELSE IF c = "x" THEN "X" ELSE c

RECURSIVE trimStart(_)
trimStart(str) ==
  IF str # <<>> /\ Head(str) = " " THEN trimStart(Tail(str)) ELSE str

RECURSIVE trimEnd(_)
trimEnd(str) ==
  IF str # <<>> /\ str[Len(str)] = " " THEN trimEnd(SubSeq(str, 1, Len(str) - 1)) ELSE str

trim(str) == trimEnd(trimStart(str))

\* replace(/[^A-E]/g, '')
AtoE == {"A", "B", "C", "D", "E"}
stripNonAtoE(str) == SelectSeq(str, LAMBDA c : c \in AtoE)

\* The value is trimmed without the test for a truthy value: null and
\* undefined have no trim method either.
normalizeAnswer_noGuard(raw) ==
  IF raw.kind \in {"absent", "null", "number"}
  THEN [threw |-> TRUE, value |-> <<>>]
  ELSE [threw |-> FALSE,
        value |-> stripNonAtoE([k \in 1..Len(trim(raw.s)) |-> toUpperCase(trim(raw.s)[k])])]

\* item.correctAnswer ? item.correctAnswer.trim().toUpperCase().replace(...) : ''
\* A raw value is absent, null, a string or a number; a non-zero number has no
\* trim method, and the call throws.
normalizeAnswer(raw) ==
  IF raw.kind \in {"absent", "null"} \/ (raw.kind = "string" /\ raw.s = <<>>)
  THEN [threw |-> FALSE, value |-> <<>>]
  ELSE IF raw.kind = "number"
  THEN [threw |-> TRUE, value |-> <<>>]
  ELSE [threw |-> FALSE,
        value |-> stripNonAtoE([k \in 1..Len(trim(raw.s)) |-> toUpperCase(trim(raw.s)[k])])]

RawAnswers ==
  {[kind |-> k, s |-> <<>>] : k \in {"absent", "null", "number"}}
  \cup {[kind |-> "string", s |-> str] : str \in StringsUpTo(AnswerChars, MaxAnswerLen)}

NormInit ==
  /\ rawAnswer \in RawAnswers
  /\ correctAnswer = [threw |-> FALSE, value |-> <<>>]
  /\ nmPc = "raw"
  /\ AppInit /\ apiKey /\ RtIdle /\ CkIdle /\ AuxIdle

\* lines 122-128: the map callback on one element.
NormalizeItem ==
  /\ nmPc = "raw"
  /\ correctAnswer' = normalizeAnswer(rawAnswer)
  /\ nmPc' = "mapped"
  /\ UNCHANGED <<rawAnswer, appVars, rtVars, ckVars, auxVars>>

NormNext == NormalizeItem

NormSpec == NormInit /\ [][NormNext]_vars

\* ----------------------------------------------------------- chunkHtmlContent
\* An HTML string is a sequence of characters in which the closing tag "</p>"
\* is one element of length 4: "</p>" cannot overlap itself, so a string splits
\* into its occurrences of "</p>" and the characters between them in one way.
PTag == "</p>"
HtmlChars == {"a", "b", PTag}

CharLen(c) == IF c = PTag THEN 4 ELSE 1

\* html.length
RECURSIVE StrLen(_)
StrLen(str) == IF str = <<>> THEN 0 ELSE CharLen(Head(str)) + StrLen(Tail(str))

\* html.split('</p>')
RECURSIVE SplitFrom(_, _)
SplitFrom(str, part) ==
  IF str = <<>> THEN <<part>>
  ELSE IF Head(str) = PTag THEN <<part>> \o SplitFrom(Tail(str), <<>>)
  ELSE SplitFrom(Tail(str), Append(part, Head(str)))

split(str) == SplitFrom(str, <<>>)

\* lines 309-310: the i-th part with its closing tag put back, but for the last.
PartAt(parts, i) == IF i < Len(parts) THEN Append(parts[i], PTag) ELSE parts[i]

\* The size test forgets what the chunk already holds.
Overflows_partOnly(currentChunk, part, max) == StrLen(part) > max

\* line 312
Overflows(currentChunk, part, max) == StrLen(currentChunk) + StrLen(part) > max

\* An over-long paragraph is dropped instead of being pushed on its own.
OnOverflow_drops(currentChunk, part, out) ==
  IF StrLen(currentChunk) > 0
  THEN [chunks |-> Append(out, currentChunk), currentChunk |-> part]
  ELSE [chunks |-> out, currentChunk |-> <<>>]

\* lines 313-319: the part does not fit.
OnOverflow(currentChunk, part, out) ==
  IF StrLen(currentChunk) > 0
  THEN [chunks |-> Append(out, currentChunk), currentChunk |-> part]
  ELSE [chunks |-> Append(out, part), currentChunk |-> <<>>]

\* lines 308-325: the loop from part i on, and the final push.
RECURSIVE ChunkLoop(_, _, _, _, _)
ChunkLoop(parts, i, currentChunk, out, max) ==
  IF i > Len(parts)
  THEN IF StrLen(currentChunk) > 0 THEN Append(out, currentChunk) ELSE out
  ELSE LET part == PartAt(parts, i) IN
       IF Overflows(currentChunk, part, max)
       THEN LET o == OnOverflow(currentChunk, part, out)
            IN ChunkLoop(parts, i + 1, o.currentChunk, o.chunks, max)
       ELSE ChunkLoop(parts, i + 1, currentChunk \o part, out, max)

\* The loop runs also for a string within the limit.
chunkHtmlContent_noShortcut(str, max) == ChunkLoop(split(str), 1, <<>>, <<>>, max)

\* documentProcessor.ts lines 300-328
chunkHtmlContent(str, max) ==
  IF StrLen(str) <= max THEN <<str>>
  ELSE ChunkLoop(split(str), 1, <<>>, <<>>, max)

ChunkInit ==
  /\ html \in StringsUpTo(HtmlChars, MaxHtmlLen)
  /\ maxChunkSize \in 1..MaxChunkSize
  /\ chunks = <<>>
  /\ ckPc = "call"
  /\ AppInit /\ apiKey /\ RtIdle /\ NmIdle /\ AuxIdle

ChunkHtml ==
  /\ ckPc = "call"
  /\ chunks' = chunkHtmlContent(html, maxChunkSize)
  /\ ckPc' = "returned"
  /\ UNCHANGED <<html, maxChunkSize, appVars, rtVars, nmVars, auxVars>>

ChunkNext == ChunkHtml

ChunkSpec == ChunkInit /\ [][ChunkNext]_vars

\* ------------------------------------------------- the result store (McqData[])
\* crypto.randomUUID(): the n-th value generated; no value is generated twice.
randomUUID(n) == "u" \o ToString(n)

\* A property that is undefined.
Undefined == "<undefined>"

\* Elements of the parsed response: one without passage and id, one that
\* carries a passage and an id field of its own.
PlainItem ==
  [question |-> "q", choiceA |-> "a", choiceB |-> "b", choiceC |-> "c", choiceD |-> "d",
   correctAnswer |-> [kind |-> "string", s |-> <<"b", ")">>]]

ResponseItems == {PlainItem, [id |-> "m", passage |-> "p"] @@ PlainItem}

\* item.f || undefined
OrUndefined(item, f) ==
  IF f \in DOMAIN item /\ item[f] # "" THEN item[f] ELSE Undefined

\* The spread comes after the generated properties, so the element's own win.
mapItem_itemLast(item, uuid) ==
  item @@ [id |-> uuid,
           choiceE |-> OrUndefined(item, "choiceE"),
           passage |-> OrUndefined(item, "passage"),
           correctAnswer |-> normalizeAnswer(item.correctAnswer).value]

\* part_000 lines 122-128: ({...item, id: crypto.randomUUID(), choiceE: ...,
\* passage: ..., correctAnswer: ...}); a property written after the spread
\* replaces the element's.
mapItem(item, uuid) ==
  [id |-> uuid,
   choiceE |-> OrUndefined(item, "choiceE"),
   passage |-> OrUndefined(item, "passage"),
   correctAnswer |-> normalizeAnswer(item.correctAnswer).value] @@ item

ItemBatches ==
  {<<a>> : a \in ResponseItems} \cup {<<a, b>> : a \in ResponseItems, b \in ResponseItems}

\* A call returns the mapped elements of its response and processGroups appends
\* them: setResults(prev => [...prev, ...flatResults]).
AppendResults(items) ==
  /\ nextId + Len(items) - 1 <= MaxIds
  /\ results' = results \o [k \in 1..Len(items) |-> mapItem(items[k], randomUUID(nextId + k - 1))]
  /\ nextId' = nextId + Len(items)
  /\ stOp' = [op |-> "append", id |-> "", field |-> ""]
  /\ sheet' = <<>>
  /\ UNCHANGED edits

\* setResults([]) of handleProcess (line 299) and handleClear (line 358).
ResetResults ==
  /\ results # <<>>
  /\ results' = <<>>
  /\ stOp' = [op |-> "reset", id |-> "", field |-> ""]
  /\ sheet' = <<>>
  /\ UNCHANGED <<nextId, edits>>

\* The fields ResultsTable edits (lines 100, 116, 126, 146) and the values
\* typed or selected.
EditableFields ==
  {"question", "choiceA", "choiceB", "choiceC", "choiceD", "correctAnswer", "passage"}

EditValues(field) ==
  IF field = "correctAnswer" THEN {<<>>, <<"C">>}
  ELSE IF field = "passage" THEN {"", "x"}
  ELSE {"x"}

\* The ids handed to the handlers: those of the rows shown (item.id), and one
\* that no row has.
RowIds == {results[k].id : k \in 1..Len(results)} \cup {"m"}

\* The update touches every record.
handleUpdateResult_all(id, field, value) ==
  /\ edits < MaxEdits
  /\ results' = [k \in 1..Len(results) |-> (field :> value) @@ results[k]]
  /\ edits' = edits + 1
  /\ stOp' = [op |-> "update", id |-> id, field |-> field]
  /\ sheet' = <<>>
  /\ UNCHANGED nextId

\* App.tsx lines 362-366
handleUpdateResult(id, field, value) ==
  /\ edits < MaxEdits
  /\ results' = [k \in 1..Len(results) |->
                   IF results[k].id = id THEN (field :> value) @@ results[k] ELSE results[k]]
  /\ edits' = edits + 1
  /\ stOp' = [op |-> "update", id |-> id, field |-> field]
  /\ sheet' = <<>>
  /\ UNCHANGED nextId

\* App.tsx lines 368-370
handleDeleteResult(id) ==
  /\ edits < MaxEdits
  /\ results' = SelectSeq(results, LAMBDA item : item.id # id)
  /\ edits' = edits + 1
  /\ stOp' = [op |-> "delete", id |-> id, field |-> ""]
  /\ sheet' = <<>>
  /\ UNCHANGED nextId

headers ==
  <<"Question", "Choice A", "Choice B", "Choice C", "Choice D", "Correct Answer", "Passage">>

\* The passage is written as it is.
SheetRow_rawPassage(item) ==
  <<item.question, item.choiceA, item.choiceB, item.choiceC, item.choiceD,
    item.correctAnswer, item.passage>>

\* ResultsTable.tsx lines 28-30; item.passage || ''
SheetRow(item) ==
  <<item.question, item.choiceA, item.choiceB, item.choiceC, item.choiceD,
    item.correctAnswer, IF item.passage \in {Undefined, ""} THEN "" ELSE item.passage>>

\* ResultsTable.tsx lines 26-37; the button is rendered while data is not empty.
handleDownload ==
  /\ Len(results) > 0
  /\ sheet' = <<headers>> \o [k \in 1..Len(results) |-> SheetRow(results[k])]
  /\ stOp' = [op |-> "download", id |-> "", field |-> ""]
  /\ UNCHANGED <<results, nextId, edits>>

StoreInit == AppInit /\ apiKey /\ RtIdle /\ NmIdle /\ CkIdle /\ AuxIdle

StoreFrame ==
  UNCHANGED <<file, status, abortRef, apiKey, runs, nextRun, alerted,
              rtVars, nmVars, ckVars, dtVars, rsVars, anVars>>

StoreNext ==
  \/ \E items \in ItemBatches : AppendResults(items) /\ StoreFrame
  \/ ResetResults /\ StoreFrame
  \/ \E id \in RowIds, field \in EditableFields :
       \E value \in EditValues(field) : handleUpdateResult(id, field, value) /\ StoreFrame
  \/ \E id \in RowIds : handleDeleteResult(id) /\ StoreFrame
  \/ handleDownload /\ StoreFrame

StoreSpec == StoreInit /\ [][StoreNext]_vars

\* ------------------------------- analyzeDocumentContent, response to records
\* An element whose correctAnswer is a non-zero number, and the element null.
NumberItem == [correctAnswer |-> [kind |-> "number", s |-> <<>>]] @@ PlainItem
NullItem == [isNull |-> TRUE]

Elements == ResponseItems \cup {NumberItem, NullItem}

\* The arrays JSON.parse can return, up to MaxItems elements.
RECURSIVE ArraysUpTo(_)
ArraysUpTo(n) ==
  IF n = 0 THEN {<<>>}
  ELSE ArraysUpTo(n - 1)
       \cup {Append(a, e) : a \in {b \in ArraysUpTo(n - 1) : Len(b) = n - 1}, e \in Elements}

\* response.text: missing or empty, text JSON.parse rejects, or JSON text of a
\* value that is an object, null, a string, a number or an array.
Bodies ==
  {[text |-> "noText"], [text |-> "badJson"]}
  \cup {[text |-> "json", kind |-> k] : k \in {"object", "null", "string", "number"}}
  \cup {[text |-> "json", kind |-> "array", items |-> a] : a \in ArraysUpTo(MaxItems)}

\* The map callback throws a TypeError on this element: a property of null is
\* read, or trim is called on a value that has none.
ItemThrows(item) ==
  \/ "isNull" \in DOMAIN item
  \/ normalizeAnswer(item.correctAnswer).threw

MapAll(items) == [k \in 1..Len(items) |-> mapItem(items[k], randomUUID(k))]

\* The elements that cannot be mapped are left out.
tryBlock_partial(g, body) ==
  IF g.kind # "response" THEN <<>>
  ELSE IF body.text # "json" THEN <<>>
  ELSE IF body.kind # "array" THEN <<>>
  ELSE MapAll(SelectSeq(body.items, LAMBDA item : ~ItemThrows(item)))

\* part_000 lines 101-133: the try block and its catch. g is what
\* generateWithRetry did. Anything thrown inside (the error of the retries,
\* reading text of undefined, JSON.parse, map of a non-array, the callback)
\* is caught and [] returned.
tryBlock(g, body) ==
  IF g.kind # "response" THEN <<>>
  ELSE IF body.text # "json" THEN <<>>
  ELSE IF body.kind # "array" THEN <<>>
  ELSE IF \E k \in 1..Len(body.items) : ItemThrows(body.items[k]) THEN <<>>
  ELSE MapAll(body.items)

AnalyzeInit ==
  /\ anOuts \in [1..retries -> {"ok", "e503", "eAuth"}]
  /\ anResp \in Bodies
  /\ anOut = NoReturn
  /\ anPc = "call"
  /\ AppInit /\ RtIdle /\ NmIdle /\ CkIdle /\ StIdle /\ DtIdle /\ RsIdle

\* One call, lines 40-133: the key check, then the try block.
AnalyzeCall ==
  /\ anPc = "call"
  /\ anOut' = IF ~apiKey
              THEN [threw |-> TRUE, records |-> <<>>]
              ELSE [threw |-> FALSE, records |-> tryBlock(generateWithRetry(anOuts), anResp)]
  /\ anPc' = "settled"
  /\ UNCHANGED <<anOuts, anResp, appVars, rtVars, nmVars, ckVars, stVars, dtVars, rsVars>>

AnalyzeNext == AnalyzeCall

AnalyzeSpec == AnalyzeInit /\ [][AnalyzeNext]_vars

\* ------------------------------------------ detectFileType on File objects
\* A File carries a name and the media type the browser declared for it, which
\* may be empty and need not match the name.
FileNames == {"exam.pdf", "exam.docx", "notes.txt"}
DeclaredTypes == MediaTypes \cup {"application/msword", ""}
Files == [name : FileNames, type : DeclaredTypes]

\* The kind is read off the file name where the name tells.
DocTypeOf_byName(f) ==
  IF f.name = "exam.pdf" THEN "pdf"
  ELSE IF f.name = "exam.docx" THEN "docx"
  ELSE detectFileType(f.type)

\* documentProcessor.ts lines 237-241: only file.type is read.
DocTypeOf(f) == detectFileType(f.type)

DetectInit == AppInit /\ apiKey /\ RtIdle /\ NmIdle /\ CkIdle /\ AuxIdle

\* One call; the file and result of the call before are remembered.
DetectCall(f) ==
  /\ dtCalls < MaxDetects
  /\ dtPrev' = [file |-> dtFile, kind |-> dtKind]
  /\ dtFile' = f
  /\ dtKind' = DocTypeOf(f)
  /\ dtCalls' = dtCalls + 1
  /\ UNCHANGED <<appVars, rtVars, nmVars, ckVars, stVars, rsVars, anVars>>

DetectNext == \E f \in Files : DetectCall(f)

DetectSpec == DetectInit /\ [][DetectNext]_vars

\* ---------------------------------------------------------- processPdfToImages
\* The document has rsN pages. rsAcquired are the pages for which
\* canvas.getContext('2d') returns a context, rsBlank those of them whose canvas
\* has no pixels to encode (toDataURL gives "data:,", whose part after the
\* comma is empty). rsFinished is the order in which the renders finished.

\* The base64 JPEG data of page p.
Image(p) == "img" \o ToString(p)

\* renderPage, lines 267-289: what its promise resolves with.
renderPage(p) ==
  IF p \notin rsAcquired THEN ""
  ELSE IF p \in rsBlank THEN ""
  ELSE Image(p)

\* The slice is one longer than the batch size.
BatchFrom_oneMore(i) == [k \in 1..Min(PAGE_BATCH + 1, rsN - i) |-> i + k]

\* items.slice(i, i + batchSize) of pageIndices
BatchFrom(i) == [k \in 1..Min(PAGE_BATCH, rsN - i) |-> i + k]

\* The results of a batch in the order in which its renders finished.
BatchResults_finishOrder ==
  [k \in 1..Len(rsBatch) |->
     renderPage(rsFinished[Len(rsFinished) - Len(rsBatch) + k])]

\* await Promise.all(batch.map(fn)): the values in the order of the batch.
BatchResults == [k \in 1..Len(rsBatch) |-> renderPage(rsBatch[k])]

RasterInit ==
  /\ rsN \in 0..MaxPages
  /\ rsAcquired \in SUBSET (1..rsN)
  /\ rsBlank \in SUBSET rsAcquired
  /\ rsBatch = <<>>
  /\ rsPending = {}
  /\ rsFinished = <<>>
  /\ rsResults = <<>>
  /\ rsImages = <<>>
  /\ rsPc = "call"
  /\ AppInit /\ apiKey /\ RtIdle /\ NmIdle /\ CkIdle /\ StIdle /\ DtIdle /\ AnIdle

RasterFrame == UNCHANGED <<appVars, rtVars, nmVars, ckVars, stVars, dtVars, anVars>>

\* processPdfToImages up to the first Promise.all of batchProcess (lines
\* 255-292, 246-249), or to its return for a document without pages.
processPdfToImages ==
  /\ rsPc = "call"
  /\ IF rsN = 0
     THEN /\ rsPc' = "returned"
          /\ UNCHANGED <<rsBatch, rsPending>>
     ELSE /\ rsPc' = "rendering"
          /\ rsBatch' = BatchFrom(0)
          /\ rsPending' = {BatchFrom(0)[k] : k \in DOMAIN BatchFrom(0)}
  /\ UNCHANGED <<rsN, rsAcquired, rsBlank, rsFinished, rsResults, rsImages>>
  /\ RasterFrame

\* The render of page p of the batch in flight resolves.
RenderFinish(p) ==
  /\ rsPc = "rendering"
  /\ p \in rsPending
  /\ rsPending' = rsPending \ {p}
  /\ rsFinished' = Append(rsFinished, p)
  /\ UNCHANGED <<rsN, rsAcquired, rsBlank, rsBatch, rsResults, rsImages, rsPc>>
  /\ RasterFrame

\* getPage or render of page p rejects: Promise.all rejects and the catch block
\* (lines 293-296) throws "Failed to process PDF: ...".
RenderFails(p) ==
  /\ rsPc = "rendering"
  /\ p \in rsPending
  /\ rsPc' = "threw"
  /\ UNCHANGED <<rsN, rsAcquired, rsBlank, rsBatch, rsPending, rsFinished, rsResults, rsImages>>
  /\ RasterFrame

\* Promise.all of the batch resolves: results.push(...batchResults), then the
\* next batch starts, or batchProcess returns and the empty entries are
\* filtered out (line 292). i of batchProcess is Len(rsResults): every batch
\* but the last has PAGE_BATCH entries.
BatchSettle ==
  /\ rsPc = "rendering"
  /\ rsPending = {}
  /\ \E results1 \in {rsResults \o BatchResults} :
       /\ rsResults' = results1
       /\ IF Len(results1) < rsN
          THEN /\ rsBatch' = BatchFrom(Len(results1))
               /\ rsPending' = {BatchFrom(Len(results1))[k] : k \in DOMAIN BatchFrom(Len(results1))}
               /\ UNCHANGED <<rsImages, rsPc>>
          ELSE /\ rsImages' = SelectSeq(results1, LAMBDA img : img # "")
               /\ rsPc' = "returned"
               /\ UNCHANGED <<rsBatch, rsPending>>
  /\ UNCHANGED <<rsN, rsAcquired, rsBlank, rsFinished>>
  /\ RasterFrame

RasterNext ==
  \/ processPdfToImages
  \/ \E p \in 1..MaxPages : RenderFinish(p)
  \/ \E p \in 1..MaxPages : RenderFails(p)
  \/ BatchSettle

RasterSpec == RasterInit /\ [][RasterNext]_vars

-----------------------------------------------------------------------------
\* Properties of generateWithRetry, checked under RetrySpec.

Transient == {"e503", "e429"}

\* C10: a request is attempted at most 3 times; a wait of 1000 * 2^i ms
\* follows failed attempt i (i = 0, 1) and only a 503/429 failure; any other
\* failure is rethrown at once and the third failure is rethrown as it is.
C10_RetryPolicy ==
  /\ rtCalls <= 3
  /\ rtPc # "undefined"
  /\ IsPrefix(rtWaits, <<1000, 2000>>)
  /\ \A k \in 1..Len(rtWaits) : rtOuts[k] \in Transient
  /\ rtPc \in {"try", "wait"} =>
       /\ Len(rtWaits) = rtCalls
       /\ rtCalls < 3
  /\ rtPc = "returned" =>
       /\ rtOuts[rtCalls] = "ok"
       /\ Len(rtWaits) = rtCalls - 1
  /\ rtPc = "thrown" =>
       /\ rtErr = rtOuts[rtCalls]
       /\ rtErr \in ErrorClasses
       /\ Len(rtWaits) = rtCalls - 1
       /\ rtErr \notin Transient \/ rtCalls = 3

C10_Witness ==
  /\ rtPc = "thrown"
  /\ rtCalls = 3
  /\ rtWaits = <<1000, 2000>>
  /\ rtErr \in Transient

-----------------------------------------------------------------------------
\* Properties of the answer normalisation, checked under NormSpec.

IsAnswerLetter(v) == Len(v) = 1 /\ v[1] \in AtoE

\* C6: every stored correctAnswer is the empty string or one letter of A-E,
\* and a raw value that is not one such letter once trimmed and upper-cased
\* is stored as the empty string.
C6_AnswerInvariant ==
  (nmPc = "mapped" /\ ~correctAnswer.threw) =>
    /\ correctAnswer.value = <<>> \/ IsAnswerLetter(correctAnswer.value)
    /\ (rawAnswer.kind = "string"
        /\ ~IsAnswerLetter([k \in 1..Len(trim(rawAnswer.s)) |->
                              toUpperCase(trim(rawAnswer.s)[k])]))
         => correctAnswer.value = <<>>

-----------------------------------------------------------------------------
\* Properties of chunkHtmlContent, checked under ChunkSpec.

EndsWithPTag(c) == Len(c) >= 1 /\ c[Len(c)] = PTag

NoInnerPTag(c) == \A k \in 1..(Len(c) - 1) : c[k] # PTag

NeverSplit == \A c \in 1..(Len(chunks) - 1) : EndsWithPTag(chunks[c])

\* C8: the chunks returned for an input, concatenated in order, are the input.
C8_Reconstruction == ckPc = "returned" => Flat(chunks) = html

C8_Witness ==
  /\ ckPc = "returned"
  /\ Len(chunks) >= 2
  /\ \E c \in 1..Len(chunks) : ~NoInnerPTag(chunks[c])

\* C9 as written: a chunk longer than maxChunkSize is one whole paragraph
\* ending in its closing tag, and no paragraph is split across two chunks.
C9_OversizedIsParagraph ==
  ckPc = "returned" =>
    /\ \A c \in 1..Len(chunks) :
         StrLen(chunks[c]) > maxChunkSize =>
           EndsWithPTag(chunks[c]) /\ NoInnerPTag(chunks[c])
    /\ NeverSplit

\* C9: a chunk longer than maxChunkSize is one piece of the input between
\* closing paragraph tags - a paragraph with its tag, or the text that follows
\* the last tag - and every chunk but the last ends with a closing tag.
C9_OversizedIsOnePart ==
  ckPc = "returned" =>
    /\ \A c \in 1..Len(chunks) :
         StrLen(chunks[c]) > maxChunkSize =>
           /\ NoInnerPTag(chunks[c])
           /\ EndsWithPTag(chunks[c]) \/ c = Len(chunks)
    /\ NeverSplit

C9_Witness ==
  /\ ckPc = "returned"
  /\ Len(chunks) >= 2
  /\ StrLen(chunks[Len(chunks)]) > maxChunkSize
  /\ ~EndsWithPTag(chunks[Len(chunks)])
  /\ \E c \in 1..Len(chunks) :
       StrLen(chunks[c]) > maxChunkSize /\ EndsWithPTag(chunks[c])

-----------------------------------------------------------------------------
\* Properties of the orchestrator, checked under Spec and LiveSpec.

RECURSIVE SumOutstanding(_)
SumOutstanding(S) ==
  IF S = {} THEN 0
  ELSE LET r == CHOOSE x \in S : TRUE
       IN Outstanding(r) + SumOutstanding(S \ {r})

\* C1: once handleCancel has set the flag during a run, that run dispatches
\* no further call and every record in results stays in results until it ends.
C1_Cancellation ==
  [][\A r \in RunIds :
       (Live(r) /\ runs[r].cancelled) =>
         /\ Live(r)' => Dispatched(r)' = Dispatched(r)
         /\ \A k \in 1..Len(results) : \E m \in 1..Len(results') : results'[m] = results[k]]_vars

\* C2: when a run in which a model call failed reaches complete, every group
\* was dispatched and results holds as many records as its calls returned, the
\* failed ones returning none.
C2_PartialFailure ==
  [][\A r \in RunIds :
       (Live(r) /\ runs'[r].pc = "done" /\ runs'[r].end = "complete" /\ runs'[r].failed) =>
         /\ runs'[r].missed = 0
         /\ Len(results') = runs'[r].okSum]_vars

\* C3: a model call that fails with an invalid credential or a missing model
\* ends its run with status error, before anything else is dispatched.
C3_FatalFailure ==
  \A r \in RunIds :
    runs[r].fatal => (runs[r].pc = "done" /\ runs[r].end = "error")

\* C4: when everything pending settles, the status is never analyzing or
\* extracting from some moment on for ever - it is complete, error or idle
\* again and again - and no invocation of handleProcess stays in flight for ever.
C4_RunTerminates ==
  /\ []<>(~isProcessing)
  /\ \A r \in RunIds : []<>(~Live(r))

C4_Witness ==
  /\ ~isProcessing
  /\ nextRun > MaxRuns
  /\ \A r \in RunIds : runs[r].pc = "done"
  /\ \E r \in RunIds : runs[r].cancelled
  /\ \E r \in RunIds : runs[r].end = "complete"

\* C5: at most CONCURRENT_REQUESTS model calls are outstanding at any moment.
C5_BoundedConcurrency == SumOutstanding(RunIds) <= CONCURRENT_REQUESTS

StatusMoves ==
  { <<"idle", "analyzing">>,
    <<"analyzing", "extracting">>, <<"analyzing", "complete">>,
    <<"analyzing", "error">>, <<"analyzing", "idle">>,
    <<"extracting", "complete">>, <<"extracting", "error">>,
    <<"extracting", "idle">>,
    <<"complete", "analyzing">>, <<"error", "analyzing">>,
    <<"complete", "idle">>, <<"error", "idle">> }

\* C7: status moves only idle -> analyzing -> extracting -> complete, error
\* or idle, a finished run being followed by idle or by a new analyzing;
\* extracting may pass unseen within one turn, and nothing else happens.
C7_StatusMachine ==
  [][status'.status = status.status
     \/ <<status.status, status'.status>> \in StatusMoves]_vars

-----------------------------------------------------------------------------
\* Properties of the result store, checked under StoreSpec.

GeneratedIds == {randomUUID(n) : n \in 1..(nextId - 1)}

\* C11: after any sequence of appended call results, edits and deletes, no
\* two records of results share an id, and every record's id is one generated
\* by analyzeDocumentContent, also for a response element that carried an id.
C11_UniqueIds ==
  /\ \A i, j \in 1..Len(results) : i # j => results[i].id # results[j].id
  /\ \A i \in 1..Len(results) : results[i].id \in GeneratedIds

\* Two records, one of them from an element that carried an id and a passage,
\* after an edit or a delete.
C11_Witness ==
  /\ Len(results) >= 2
  /\ edits >= 1
  /\ \E i \in 1..Len(results) : results[i].passage = "p"

Positions == 1..Len(results)

KeptBy(id) == {k \in Positions : results[k].id # id}

\* C16: handleUpdateResult(id, field, value) changes only the named field of
\* the records whose id is id and leaves length, order and every other record
\* as they were; handleDeleteResult(id) removes exactly the records with that
\* id and keeps the others in their order; both leave results as it was when
\* no record has that id.
C16_EditDeleteFrame ==
  [][ /\ (edits' = edits + 1 /\ stOp'.op = "update") =>
           /\ Len(results') = Len(results)
           /\ \A k \in Positions :
                /\ results'[k].id = results[k].id
                /\ results[k].id # stOp'.id => results'[k] = results[k]
                /\ DOMAIN results'[k] = DOMAIN results[k]
                /\ \A f \in DOMAIN results[k] \ {stOp'.field} :
                     results'[k][f] = results[k][f]
                /\ results[k].id = stOp'.id =>
                     results'[k][stOp'.field] \in EditValues(stOp'.field)
           /\ KeptBy(stOp'.id) = Positions => results' = results
      /\ (edits' = edits + 1 /\ stOp'.op = "delete") =>
           /\ Len(results') = Cardinality(KeptBy(stOp'.id))
           /\ \A k \in KeptBy(stOp'.id) :
                results'[Cardinality({j \in KeptBy(stOp'.id) : j <= k})] = results[k]
           /\ KeptBy(stOp'.id) = Positions => results' = results
    ]_vars

\* The second of three records was deleted and then the question of the last
\* was edited, the first keeping its own.
C16_Witness ==
  /\ Len(results) = 2
  /\ results[1].id = randomUUID(1)
  /\ results[2].id = randomUUID(3)
  /\ stOp = [op |-> "update", id |-> randomUUID(3), field |-> "question"]
  /\ results[1].question = "q"
  /\ results[2].question = "x"

\* C17: the exported sheet of N records has exactly N + 1 rows: the header
\* row Question, Choice A, Choice B, Choice C, Choice D, Correct Answer,
\* Passage, then one row per record in store order with the record's fields
\* in that column order, an absent passage being written as an empty cell.
C17_SpreadsheetExport ==
  stOp.op = "download" =>
    /\ Len(sheet) = Len(results) + 1
    /\ sheet[1] = <<"Question", "Choice A", "Choice B", "Choice C", "Choice D",
                    "Correct Answer", "Passage">>
    /\ \A k \in 1..Len(results) :
         /\ Len(sheet[k + 1]) = 7
         /\ sheet[k + 1][1] = results[k].question
         /\ sheet[k + 1][2] = results[k].choiceA
         /\ sheet[k + 1][3] = results[k].choiceB
         /\ sheet[k + 1][4] = results[k].choiceC
         /\ sheet[k + 1][5] = results[k].choiceD
         /\ sheet[k + 1][6] = results[k].correctAnswer
         /\ sheet[k + 1][7] = (IF results[k].passage = Undefined THEN "" ELSE results[k].passage)

\* An export of two records, one without a passage and one with.
C17_Witness ==
  /\ stOp.op = "download"
  /\ Len(results) = 2
  /\ results[1].passage = Undefined
  /\ results[2].passage = "p"
  /\ sheet[2][7] = ""
  /\ sheet[3][7] = "p"

-----------------------------------------------------------------------------
\* Cases of the correctAnswer normalization, checked under NormSpec.

EmptyRaw ==
  \/ rawAnswer.kind \in {"absent", "null"}
  \/ rawAnswer.kind = "string" /\ rawAnswer.s = <<>>

\* C18: a raw correctAnswer "b)" is stored as "B"; a raw correctAnswer that
\* is the empty string, null or absent is stored as the empty string, the map
\* callback returning normally with a string value.
C18_NormalizationCases ==
  nmPc = "mapped" =>
    /\ rawAnswer = [kind |-> "string", s |-> <<"b", ")">>] =>
         ~correctAnswer.threw /\ correctAnswer.value = <<"B">>
    /\ EmptyRaw => ~correctAnswer.threw /\ correctAnswer.value = <<>>

\* The element with "b)" has been mapped.
C18_Witness ==
  /\ nmPc = "mapped"
  /\ rawAnswer = [kind |-> "string", s |-> <<"b", ")">>]
  /\ correctAnswer = [threw |-> FALSE, value |-> <<"B">>]

-----------------------------------------------------------------------------
\* The short input of chunkHtmlContent, checked under ChunkSpec.

\* C19: for every HTML string whose length is at most maxChunkSize,
\* chunkHtmlContent returns exactly one chunk, equal to the input.
C19_ShortInputOneChunk ==
  (ckPc = "returned" /\ StrLen(html) <= maxChunkSize) => chunks = <<html>>

\* A string of two paragraphs whose length is exactly the limit.
C19_Witness ==
  /\ ckPc = "returned"
  /\ StrLen(html) = maxChunkSize
  /\ Len(html) >= 3
  /\ \E k \in 2..(Len(html) - 1) : html[k] = PTag
  /\ chunks = <<html>>

-----------------------------------------------------------------------------
\* Properties of the orchestrator's validation and failure paths, checked
\* under Spec.

\* C12: a file whose declared media type is neither application/pdf nor the
\* DOCX type is never the selected file, and the step that refuses it changes
\* neither the selection, the status, the results nor any invocation: nothing
\* is started for it.
C12_UnsupportedRejected ==
  /\ [](file = "none" \/ detectFileType(file) \in {"pdf", "docx"})
  /\ [][(alerted' /\ ~alerted) =>
          UNCHANGED <<file, results, status, abortRef, runs, nextRun>>]_vars

\* A file has just been refused: nothing is selected and the status is idle.
C12_Witness ==
  /\ alerted
  /\ file = "none"
  /\ status.status = "idle"

\* Every way a call of analyzeDocumentContent settles without an API key.
NoKeyCalls ==
  {analyzeDocumentContent(FALSE, outs, resp) :
     outs \in [1..retries -> AttemptOutcomes], resp \in Responses}

\* C13: without an API key analyzeDocumentContent throws before any request:
\* no invocation ever has a model call in flight, and an invocation that
\* reaches the extraction with at least one group, cancel not being
\* requested, ends at once with status error and the 'API Key is missing'
\* message.
C13_MissingCredential ==
  /\ [](~apiKey =>
          /\ \A a \in NoKeyCalls :
               a.kind = "rejected" /\ a.requests = 0 /\ a.message = ApiKeyMissing
          /\ \A r \in RunIds : runs[r].pc # "wave" /\ runs[r].calls = <<>>)
  /\ [][\A r \in RunIds, n \in UnitCounts \ {0} :
          (~apiKey /\ ~abortRef /\ (RasterSettle(r, n) \/ DocxSettle(r, n))) =>
             /\ runs'[r].pc = "done"
             /\ runs'[r].end = "error"
             /\ status' = Status(0, 0, "error", ApiKeyMissing)]_vars

\* Without a key, an invocation has ended with the error status and message.
C13_Witness ==
  /\ ~apiKey
  /\ \E r \in RunIds : runs[r].pc = "done" /\ runs[r].end = "error"
  /\ status = Status(0, 0, "error", ApiKeyMissing)

Returns(r) == runs[r].pc # "done" /\ runs'[r].pc = "done"

\* C14: whenever an invocation ends because cancel was requested (during the
\* rasterization, during the conversion or during the extraction), it leaves
\* status idle with the message 'Cancelled'.
C14_CancelledStatus ==
  [][\A r \in RunIds :
       (Returns(r) /\ runs'[r].end \in {"silent", "idle", "cancelled"}) =>
          status' = Status(0, 0, "idle", "Cancelled")]_vars

-----------------------------------------------------------------------------
\* Detection of the document kind, checked under DetectSpec.

\* C20: detectFileType returns PDF exactly when the declared media type is
\* application/pdf, DOCX exactly when it is the wordprocessingml type and
\* UNKNOWN otherwise; two calls on files of the same declared type (the same
\* file or another of any name) return the same kind.
C20_KindDetection ==
  dtCalls >= 1 =>
    /\ dtKind \in {"pdf", "docx", "unknown"}
    /\ dtKind = "pdf" <=> dtFile.type = "application/pdf"
    /\ dtKind = "docx" <=>
         dtFile.type = "application/vnd.openxmlformats-officedocument.wordprocessingml.document"
    /\ (dtCalls >= 2 /\ dtPrev.file.type = dtFile.type) => dtPrev.kind = dtKind

\* Two files declared application/pdf under names that say otherwise, both
\* detected as PDF.
C20_Witness ==
  /\ dtCalls >= 2
  /\ dtPrev.file = [name |-> "notes.txt", type |-> PdfType]
  /\ dtFile = [name |-> "exam.docx", type |-> PdfType]
  /\ dtPrev.kind = "pdf"
  /\ dtKind = "pdf"

-----------------------------------------------------------------------------
\* The output of processPdfToImages, checked under RasterSpec.

\* The images of the pages of set kept, in ascending page order.
IsPagesInOrder(images, kept) ==
  /\ Len(images) = Cardinality(kept)
  /\ \A p \in kept : images[Cardinality({q \in kept : q <= p})] = Image(p)

\* C15 as stated: for an N-page PDF processPdfToImages returns at most N
\* images, in ascending page order whatever the order in which the renders of
\* a batch finish, holding exactly the pages whose drawing surface was
\* acquired.
C15_AcquiredPagesInOrder ==
  rsPc = "returned" =>
    /\ Len(rsImages) <= rsN
    /\ IsPagesInOrder(rsImages, rsAcquired)

\* C15, amended: at most N images, in ascending page order whatever the order
\* in which the renders of a batch finish, holding exactly the pages whose
\* drawing surface was acquired and whose canvas encoded to non-empty data;
\* exactly N images when that is every page.
C15_NonEmptyPagesInOrder ==
  rsPc = "returned" =>
    /\ Len(rsImages) <= rsN
    /\ IsPagesInOrder(rsImages, rsAcquired \ rsBlank)
    /\ rsAcquired \ rsBlank = 1..rsN => Len(rsImages) = rsN

\* Five pages in two batches, the renders of the first finishing out of
\* order; page 3 got no surface and page 2 encoded to nothing.
C15_Witness ==
  /\ rsPc = "returned"
  /\ rsN = 5
  /\ rsFinished = <<4, 2, 3, 1, 5>>
  /\ rsAcquired = {1, 2, 4, 5}
  /\ rsBlank = {2}
  /\ rsImages = <<Image(1), Image(4), Image(5)>>

-----------------------------------------------------------------------------
\* Properties of the waves of processGroups, checked under Spec.

InResults(rec, res) == \E m \in 1..Len(res) : res[m] = rec

\* Call j of the wave of invocation r settles in this step while another call
\* of the wave is still pending.
SettlesAlone(r, j) ==
  /\ runs[r].pc = "wave"
  /\ j \in DOMAIN runs[r].calls
  /\ runs[r].calls[j].st = "pending"
  /\ runs'[r].pc = "wave"
  /\ j \in DOMAIN runs'[r].calls
  /\ runs'[r].calls[j].st = "resolved"

\* C21: within a wave, the records returned for a group are in results as
\* soon as that group's call has settled, cancel not being requested, without
\* waiting for the other calls of the wave.
C21_ImmediateAppend ==
  [][\A r \in RunIds, j \in 1..CONCURRENT_REQUESTS :
       (SettlesAlone(r, j) /\ ~abortRef) =>
          \A k \in 1..Len(runs'[r].calls[j].recs) :
             InResults(runs'[r].calls[j].recs[k], results')]_vars

\* The groups hold the units 1..n once each in source order, at most
\* PAGES_PER_CONTEXT to a group and no group empty.
WellGrouped(groups, n) ==
  /\ Flat(groups) = Units(n)
  /\ \A g \in 1..Len(groups) : Len(groups[g]) \in 1..PAGES_PER_CONTEXT

Completes(r) == Live(r) /\ runs'[r].pc = "done" /\ runs'[r].end = "complete"

\* C22: in an invocation that is not cancelled, the units the preparation
\* returned are grouped by at most 4 consecutive units in source order, the
\* groups handed to the calls so far are always the first groups in order,
\* each once, a wave being dispatched only when the wave before has settled;
\* and when the invocation completes every group has been handed to a call.
C22_DispatchOrder ==
  /\ [][\A r \in RunIds, n \in UnitCounts :
          ((RasterSettle(r, n) \/ DocxSettle(r, n)) /\ runs'[r].pc = "wave") =>
             WellGrouped(runs'[r].groups, n)]_vars
  /\ [](\A r \in RunIds :
          (Live(r) /\ ~runs[r].cancelled) =>
             /\ Len(runs[r].sent) = Dispatched(r)
             /\ runs[r].sent = SubSeq(runs[r].groups, 1, Len(runs[r].sent)))
  /\ [][\A r \in RunIds :
          (Live(r) /\ ~runs[r].cancelled) =>
             /\ Len(runs'[r].sent) > Len(runs[r].sent) =>
                  /\ Outstanding(r) <= 1
                  /\ Len(runs'[r].sent) - Len(runs[r].sent) <= CONCURRENT_REQUESTS
             /\ Completes(r) => runs[r].sent = runs[r].groups]_vars

\* The second wave of an invocation never cancelled is in flight: all four
\* groups of the thirteen units have been handed out.
C22_Witness ==
  \E r \in RunIds :
    /\ runs[r].pc = "wave"
    /\ ~runs[r].cancelled
    /\ runs[r].i = CONCURRENT_REQUESTS
    /\ Len(runs[r].groups) = 4
    /\ runs[r].sent = runs[r].groups
    /\ Flat(runs[r].sent) = Units(MaxUnits)

-----------------------------------------------------------------------------
\* The batching of processPdfToImages, checked under RasterSpec.

PagesOf(batch) == {batch[k] : k \in DOMAIN batch}

FinishedPages == {rsFinished[k] : k \in DOMAIN rsFinished}

\* C23: during processPdfToImages at most 4 page renders are in progress at
\* any moment, all of one batch, and a render of the next batch starts only
\* when no render is in progress and every page before it has been rendered.
C23_RasterBatching ==
  /\ [](/\ Cardinality(rsPending) <= 4
        /\ rsPending \subseteq PagesOf(rsBatch))
  /\ [][(rsPending' \ rsPending # {}) =>
          /\ rsPending = {}
          /\ \A p \in rsPending' :
               \A q \in 1..(p - 1) : q \in rsPending' \/ q \in FinishedPages']_vars

\* The fifth page is being rendered, after the four of the first batch.
C23_Witness ==
  /\ rsPc = "rendering"
  /\ rsN = 5
  /\ rsPending = {5}
  /\ rsBatch = <<5>>
  /\ rsFinished = <<3, 1, 4, 2>>

-----------------------------------------------------------------------------
\* Properties of the invocations of handleProcess, checked under Spec.

LiveRuns == {r \in RunIds : Live(r)}

\* C24: at most one invocation of handleProcess is in flight at any time:
\* none is started while an earlier one still has an unsettled timer,
\* rasterization, conversion or extraction call.
C24_SingleActiveRun == Cardinality(LiveRuns) <= 1

\* C25: results never holds records returned to two different invocations,
\* and once a new invocation has reset results only records returned to it
\* are appended.
C25_NoMixingOfRuns ==
  /\ \A k, m \in 1..Len(results) : results[k].run = results[m].run
  /\ \A k \in 1..Len(results) : results[k].run = nextRun - 1

\* C26: whenever status is complete no extraction call is outstanding, and
\* no step of the pipeline (a timer, a rasterization, a conversion or a call
\* settling) changes results or status until the user acts.
C26_CompleteIsQuiescent ==
  /\ [](status.status = "complete" => SumOutstanding(RunIds) = 0)
  /\ [][(status.status = "complete" /\ \E r \in RunIds : Settle(r)) =>
          UNCHANGED <<results, status>>]_vars

\* A call of the wave that invocation r dispatches in this step throws: the
\* preparation settles with at least one group, cancel not being requested,
\* and there is no API key (no other error leaves analyzeDocumentContent).
CallThrows(r) ==
  /\ ~apiKey
  /\ ~abortRef
  /\ \E n \in UnitCounts \ {0} : RasterSettle(r, n) \/ DocxSettle(r, n)

C28_WaveDiscardedOnCancel ==
  [][\A r \in RunIds, j \in 1..CONCURRENT_REQUESTS :
       (runs[r].cancelled /\ abortRef /\ CallSettle(r, j)) =>
          /\ results' = results
          /\ status'.current = status.current
          /\ runs'[r].pc = "done" => runs'[r].end = "cancelled"]_vars

\* The wave of a cancelled invocation has settled under the flag: nothing
\* was appended although the first wave had returned records.
C28_Witness ==
  \E r \in RunIds :
    /\ abortRef
    /\ runs[r].pc = "done"
    /\ runs[r].end = "cancelled"
    /\ runs[r].cancelled
    /\ status = Status(0, 0, "idle", "Cancelled")
    /\ Len(results) >= 1
    /\ \A k \in 1..Len(results) : results[k].run = r /\ results[k].grp <= CONCURRENT_REQUESTS

\* Record a comes before record b in the source: an earlier group, or the same
\* group and an earlier element of its response.
SourceBefore(a, b) == a.grp < b.grp \/ (a.grp = b.grp /\ a.idx < b.idx)

\* C30: the records of one invocation stand in results in the source order
\* of their groups (and, within a group, of the response), whatever the order
\* in which the calls of a wave settled.
C30_DocumentOrder ==
  \A k, m \in 1..Len(results) :
    (k < m /\ results[k].run = results[m].run) => SourceBefore(results[k], results[m])

\* An invocation never cancelled has completed with a record from each of its
\* four groups, in order.
C30_Witness ==
  \E r \in RunIds :
    /\ runs[r].pc = "done"
    /\ runs[r].end = "complete"
    /\ ~runs[r].cancelled
    /\ Len(results) = 4
    /\ \A k \in 1..4 : results[k].run = r /\ results[k].grp = k

-----------------------------------------------------------------------------
\* What analyzeDocumentContent returns, checked under AnalyzeSpec.

IsArrayBody == anResp.text = "json" /\ anResp.kind = "array"

\* Record rec is the normalized form of response element item.
NormalizedFrom(rec, item) ==
  /\ rec.question = item.question
  /\ rec.choiceA = item.choiceA
  /\ rec.choiceB = item.choiceB
  /\ rec.choiceC = item.choiceC
  /\ rec.choiceD = item.choiceD
  /\ rec.passage = (IF "passage" \in DOMAIN item THEN item.passage ELSE Undefined)
  /\ rec.correctAnswer = normalizeAnswer(item.correctAnswer).value
  /\ rec.id # Undefined

\* C29: with the API key present analyzeDocumentContent never throws and
\* returns either the empty list or one normalized record for every element of
\* the parsed array, in the same order; a body that is not an array, text
\* that cannot be parsed, or one element that cannot be normalized gives the
\* empty list, never a part of the list.
C29_AllOrNothing ==
  (anPc = "settled" /\ apiKey) =>
    /\ ~anOut.threw
    /\ \/ anOut.records = <<>>
       \/ /\ IsArrayBody
          /\ Len(anOut.records) = Len(anResp.items)
          /\ \A k \in 1..Len(anResp.items) :
               NormalizedFrom(anOut.records[k], anResp.items[k])
    /\ ~IsArrayBody => anOut.records = <<>>
    /\ (IsArrayBody /\ \E k \in 1..Len(anResp.items) :
                          anResp.items[k] \in {NumberItem, NullItem})
         => anOut.records = <<>>

\* After one retried 503 the response holds two elements, and both come back
\* normalized, the one with the passage first.
C29_Witness ==
  /\ anPc = "settled"
  /\ apiKey
  /\ anOuts[1] = "e503"
  /\ anOuts[2] = "ok"
  /\ IsArrayBody
  /\ Len(anResp.items) = 2
  /\ Len(anOut.records) = 2
  /\ anOut.records[1].passage = "p"
  /\ anOut.records[2].passage = Undefined
  /\ anOut.records[1].correctAnswer = <<"B">>

====
